---- MODULE Spec2Model ----
(***************************************************************************)
(* Model of the Modified-Leitner flashcard scheduler of                    *)
(* PS1/src/algorithm.ts: toBucketSets, getBucketRange, practice, update.   *)
(*                                                                         *)
(* A JavaScript Set is an object on the heap; a BucketMap (Map) and a      *)
(* bucket array (Array) hold REFERENCES to Set objects.  The heap is a     *)
(* sequence of card sets, a reference is an index into it.  A Map is the   *)
(* sequence of its entries <<key, ref>> in insertion order.                *)
(***************************************************************************)
EXTENDS Integers, Sequences, FiniteSets, TLC

NumCards == 3      \* cards are identified by reference: 1..NumCards
MaxKey   == 2      \* largest bucket number of an initial bucket map
MaxDay   == 3      \* largest day number passed to practice
MaxCalls == 2      \* number of calls made by the caller in one run
MaxHintLen  == 3   \* longest hint text of a flashcard
MaxFrontLen == 2   \* longest front text of a flashcard

Cards == 1..NumCards
Keys  == 0..MaxKey
Days  == (-1)..MaxDay

\* AnswerDifficulty, imported from ./flashcards
AnswerDifficulty == {"Easy", "Hard", "Wrong"}

\* the value of an optional chain / find() that found nothing
Undefined == -1

VARIABLES
  heap,         \* Seq(SUBSET Cards): the Set objects, by reference
  buckets,      \* the BucketMap the caller holds: Seq of <<key, ref>>
  bucketArray,  \* the Array<Set> the caller holds: Seq of refs
  last,         \* the last call: its name, arguments and outcome
  calls,        \* number of calls made so far
  history,      \* the caller's first map and its successful updates so far
  flashcard,    \* the Flashcard passed to getHint
  hintOut       \* the string getHint returned

vars == <<heap, buckets, bucketArray, last, calls, history, flashcard, hintOut>>

----------------------------------------------------------------------------
(* Math.max / Math.min *)
MathMax(a, b) == IF a >= b THEN a ELSE b
MathMin(a, b) == IF a <= b THEN a ELSE b
MaxOf(S) == CHOOSE x \in S : \A y \in S : y <= x
MinOf(S) == CHOOSE x \in S : \A y \in S : x <= y

(* Map operations *)
MapSize(m) == Len(m)
MapKeys(m) == {m[j][1] : j \in 1..Len(m)}
MapHas(m, k) == k \in MapKeys(m)
\* Map.get: the reference stored at key k, or Undefined
MapGet(m, k) ==
  IF MapHas(m, k) THEN m[CHOOSE j \in 1..Len(m) : m[j][1] = k][2] ELSE Undefined

\* the contents of a Map, seen through heap h: key -> set of cards
View(m, h) == [k \in MapKeys(m) |-> h[MapGet(m, k)]]
\* the contents of an Array<Set>, seen through heap h
ArrView(arr, h) == [j \in 1..Len(arr) |-> h[arr[j]]]

----------------------------------------------------------------------------
(* toBucketSets *)

maxBucketOfSize(m) == MapSize(m) - 1
maxBucketOf(m) == IF MapSize(m) > 0 THEN MaxOf(MapKeys(m)) ELSE -1

\* the loop  for (i = 0; i <= maxBucket; i++) bucketArray.push(get(i) || new Set())
RECURSIVE tbsLoop(_, _, _, _, _)
tbsLoop(i, maxBucket, m, arr, h) ==
  IF i > maxBucket THEN [arr |-> arr, heap |-> h]
  ELSE IF MapGet(m, i) # Undefined
       THEN tbsLoop(i + 1, maxBucket, m, Append(arr, MapGet(m, i)), h)
       ELSE tbsLoop(i + 1, maxBucket, m, Append(arr, Len(h) + 1), Append(h, {}))

toBucketSets(m, h) == tbsLoop(0, maxBucketOf(m), m, <<>>, h)

----------------------------------------------------------------------------
(* getBucketRange *)

SeqElems(s) == {s[j] : j \in 1..Len(s)}

\* buckets.map((set, index) => set.size > 0 ? index : -1).filter(i => i !== -1)
nonEmptyBuckets(arr, h) ==
  SelectSeq([j \in 1..Len(arr) |->
               IF Cardinality(h[arr[j]]) > 0 THEN j - 1 ELSE -1],
            LAMBDA x : x # -1)

NoRange == [defined |-> FALSE, minBucket |-> Undefined, maxBucket |-> Undefined]

getBucketRangeLen(arr, h) ==
  IF Len(nonEmptyBuckets(arr, h)) = 0 THEN NoRange
  ELSE [defined |-> TRUE,
        minBucket |-> MinOf(SeqElems(nonEmptyBuckets(arr, h))),
        maxBucket |-> Len(arr) - 1]

getBucketRange(arr, h) ==
  IF Len(nonEmptyBuckets(arr, h)) = 0 THEN NoRange
  ELSE [defined |-> TRUE,
        minBucket |-> MinOf(SeqElems(nonEmptyBuckets(arr, h))),
        maxBucket |-> MaxOf(SeqElems(nonEmptyBuckets(arr, h)))]

----------------------------------------------------------------------------
(* practice *)

dayInvalidOrZero(day) == day <= 0
dayInvalid(day) == day < 0

scheduledPow2(day, i) == day % (2 ^ i) = 0
scheduled(day, i) == day % (i + 1) = 0

\* the loop  for (i = 0; i < buckets.length; i++) if (...) forEach(add)
RECURSIVE practiceLoop(_, _, _, _, _)
practiceLoop(i, arr, day, h, selectedCards) ==
  IF i >= Len(arr) THEN selectedCards
  ELSE IF scheduled(day, i)
       THEN practiceLoop(i + 1, arr, day, h, selectedCards \cup h[arr[i + 1]])
       ELSE practiceLoop(i + 1, arr, day, h, selectedCards)

practice(arr, day, h) ==
  IF dayInvalid(day)
  THEN [threw |-> TRUE, err |-> "Day number must be non-negative", set |-> {}]
  ELSE [threw |-> FALSE, err |-> "", set |-> practiceLoop(0, arr, day, h, {})]

----------------------------------------------------------------------------
(* update *)

\* Array.from(buckets.entries()).find(([_, cards]) => cards.has(card))?.[0]
RECURSIVE findFrom(_, _, _, _)
findFrom(j, m, card, h) ==
  IF j > Len(m) THEN Undefined
  ELSE IF card \in h[m[j][2]] THEN m[j][1]
  ELSE findFrom(j + 1, m, card, h)

currentBucketOf(m, card, h) == findFrom(1, m, card, h)

notFoundFalsy(currentBucket) == currentBucket = Undefined \/ currentBucket = 0
notFound(currentBucket) == currentBucket = Undefined

bucketAdjustmentDown(difficulty) ==
  IF difficulty = "Easy" THEN 1 ELSE -1
bucketAdjustment(difficulty) ==
  IF difficulty = "Easy" THEN 1 ELSE IF difficulty = "Hard" THEN -1 ELSE 0

newBucketOfSize(currentBucket, difficulty, size) ==
  MathMax(0, MathMin(currentBucket + bucketAdjustment(difficulty), size))
newBucketOf(currentBucket, difficulty, size) ==
  MathMax(0, MathMin(currentBucket + bucketAdjustment(difficulty), size - 1))

\* Set.delete / Set.add on the Set object behind reference r
keepCard(h, r, card) == h
setDelete(h, r, card) == [h EXCEPT ![r] = @ \ {card}]
dropCard(h, r, card) == h
setAdd(h, r, card) == [h EXCEPT ![r] = @ \cup {card}]

update(m, card, difficulty, h) ==
  LET currentBucket == currentBucketOf(m, card, h) IN
  IF notFound(currentBucket)
  THEN [threw |-> TRUE, err |-> "Card not found", map |-> <<>>, heap |-> h]
  ELSE
    LET newBucket == newBucketOf(currentBucket, difficulty, MapSize(m))
        \* new Map(buckets): the entries are copied, the Sets are shared
        newBuckets0 == m
        h1 == setDelete(h, MapGet(newBuckets0, currentBucket), card)
        missing == ~MapHas(newBuckets0, newBucket)
        newBuckets == IF missing
                      THEN Append(newBuckets0, <<newBucket, Len(h1) + 1>>)
                      ELSE newBuckets0
        h2 == IF missing THEN Append(h1, {}) ELSE h1
        h3 == setAdd(h2, MapGet(newBuckets, newBucket), card)
    IN [threw |-> FALSE, err |-> "", map |-> newBuckets, heap |-> h3]

----------------------------------------------------------------------------
(* getHint *)

\* a string is the sequence of its characters
WhiteSpace == {" ", "\t"}
Chars == WhiteSpace \cup {"a", "b"}
Texts(n) == UNION {[1..k -> Chars] : k \in 0..n}

\* "Think about the key concepts related to "
HintPrefix ==
  <<"T", "h", "i", "n", "k", " ", "a", "b", "o", "u",
     "t", " ", "t", "h", "e", " ", "k", "e", "y", " ",
     "c", "o", "n", "c", "e", "p", "t", "s", " ", "r",
     "e", "l", "a", "t", "e", "d", " ", "t", "o", " ">>

\* String.prototype.trim: strips the white space of both ends
RECURSIVE trimStart(_)
trimStart(s) ==
  IF s = <<>> THEN s
  ELSE IF Head(s) \in WhiteSpace THEN trimStart(Tail(s)) ELSE s

RECURSIVE trimEnd(_)
trimEnd(s) ==
  IF s = <<>> THEN s
  ELSE IF s[Len(s)] \in WhiteSpace
       THEN trimEnd(SubSeq(s, 1, Len(s) - 1)) ELSE s

trim(s) == trimEnd(trimStart(s))

\* card.hint.trim() || `Think about the key concepts related to ${card.front}`
getHintUntrimmed(card) ==
  IF trim(card.hint) # <<>> THEN card.hint ELSE HintPrefix \o card.front
getHint(card) ==
  IF trim(card.hint) # <<>> THEN trim(card.hint) ELSE HintPrefix \o card.front

----------------------------------------------------------------------------
(* The caller *)

NoCall ==
  [op |-> "none", card |-> 0, difficulty |-> "", day |-> 0,
   inMap |-> <<>>, preView |-> <<>>, preArr |-> <<>>,
   threw |-> FALSE, err |-> "",
   map |-> <<>>, arr |-> <<>>, set |-> {}, range |-> NoRange]

NoCard == [front |-> <<>>, back |-> <<>>, hint |-> <<>>, tags |-> {}]

\* injective key sequences: a Map's keys in insertion order
KeySeqs ==
  {s \in UNION {[1..n -> Keys] : n \in 0..(MaxKey + 1)} :
     \A i, j \in 1..Len(s) : i # j => s[i] # s[j]}

\* a valid bucket map: every card is in at most one bucket
Init ==
  \E s \in KeySeqs :
    \E a \in [Cards -> 0..Len(s)] :
      /\ buckets = [j \in 1..Len(s) |-> <<s[j], j>>]
      /\ heap = [j \in 1..Len(s) |-> {c \in Cards : a[c] = j}]
      /\ bucketArray = <<>>
      /\ last = NoCall
      /\ calls = 0
      /\ history = [cards |-> {c \in Cards : a[c] # 0},
                    keys |-> {s[j] : j \in 1..Len(s)},
                    updates |-> 0]
      /\ flashcard = NoCard
      /\ hintOut = <<>>

ToBucketSets ==
  /\ calls < MaxCalls
  /\ LET r == toBucketSets(buckets, heap) IN
       /\ bucketArray' = r.arr
       /\ heap' = r.heap
       /\ last' = [NoCall EXCEPT !.op = "toBucketSets", !.inMap = buckets,
                                 !.preView = View(buckets, heap),
                                 !.arr = r.arr]
  /\ calls' = calls + 1
  /\ UNCHANGED <<buckets, history, flashcard, hintOut>>

GetBucketRange ==
  /\ calls < MaxCalls
  /\ last' = [NoCall EXCEPT !.op = "getBucketRange",
                            !.preArr = ArrView(bucketArray, heap),
                            !.range = getBucketRange(bucketArray, heap)]
  /\ calls' = calls + 1
  /\ UNCHANGED <<heap, buckets, bucketArray, history, flashcard, hintOut>>

Practice(day) ==
  /\ calls < MaxCalls
  /\ LET r == practice(bucketArray, day, heap) IN
       last' = [NoCall EXCEPT !.op = "practice", !.day = day,
                              !.preArr = ArrView(bucketArray, heap),
                              !.threw = r.threw, !.err = r.err,
                              !.set = r.set]
  /\ calls' = calls + 1
  /\ UNCHANGED <<heap, buckets, bucketArray, history, flashcard, hintOut>>

\* the caller threads the returned map into its next call
Update(card, difficulty) ==
  /\ calls < MaxCalls
  /\ LET r == update(buckets, card, difficulty, heap) IN
       /\ heap' = r.heap
       /\ buckets' = IF r.threw THEN buckets ELSE r.map
       /\ last' = [NoCall EXCEPT !.op = "update", !.card = card,
                                 !.difficulty = difficulty,
                                 !.inMap = buckets,
                                 !.preView = View(buckets, heap),
                                 !.threw = r.threw, !.err = r.err,
                                 !.map = r.map]
       /\ history' = IF r.threw THEN history
                     ELSE [history EXCEPT !.updates = @ + 1]
  /\ calls' = calls + 1
  /\ UNCHANGED <<bucketArray, flashcard, hintOut>>

Next ==
  \/ ToBucketSets
  \/ GetBucketRange
  \/ \E day \in Days : Practice(day)
  \/ \E card \in Cards, difficulty \in AnswerDifficulty : Update(card, difficulty)

Spec == Init /\ [][Next]_vars

----------------------------------------------------------------------------
(* getHint is a pure function of a Flashcard: its own specification draws   *)
(* the card from the bounded texts and applies it.                          *)

InitHint ==
  /\ flashcard \in [front : Texts(MaxFrontLen), back : {<<>>, <<"a">>},
                    hint : Texts(MaxHintLen), tags : {{}, {"t"}}]
  /\ hintOut = <<>>
  /\ heap = <<>>
  /\ buckets = <<>>
  /\ bucketArray = <<>>
  /\ last = NoCall
  /\ calls = 0
  /\ history = [cards |-> {}, keys |-> {}, updates |-> 0]

GetHint ==
  /\ calls < MaxCalls
  /\ hintOut' = getHint(flashcard)
  /\ last' = [NoCall EXCEPT !.op = "getHint"]
  /\ calls' = calls + 1
  /\ UNCHANGED <<heap, buckets, bucketArray, history, flashcard>>

NextHint == GetHint

SpecHint == InitHint /\ [][NextHint]_vars

----------------------------------------------------------------------------
TypeOK ==
  /\ heap \in Seq(SUBSET Cards)
  /\ \A j \in 1..Len(buckets) : buckets[j][2] \in 1..Len(heap)
  /\ \A j \in 1..Len(bucketArray) : bucketArray[j] \in 1..Len(heap)
  /\ calls \in 0..MaxCalls
  /\ history.updates \in 0..calls
----------------------------------------------------------------------------
(* Properties *)

\* the buckets of view v (key -> set of cards) that hold card c
BucketsHolding(v, c) == {k \in DOMAIN v : c \in v[k]}
UpdateReturned == last.op = "update" /\ ~last.threw
\* the bucket of the updated card before the call, and the key count
PreBucket == CHOOSE k \in DOMAIN last.preView : last.card \in last.preView[k]
PreSize == Cardinality(DOMAIN last.preView)
\* the map update returned, seen through the heap after the call
RetView == View(last.map, heap)

\* C1: update never mutates its input: after update(M, c, d) returns, every
\* key of M maps to the same set of cards as before the call.
C1_UpdateLeavesInputUnchanged ==
  UpdateReturned => View(last.inMap, heap) = last.preView

C3_PracticeExample ==
  (last.op = "practice" /\ last.preArr = <<{1}, {2}, {3}>>) =>
    /\ last.day = 0 => last.set = {1, 2, 3}
    /\ last.day = 1 => last.set = {1, 2}
    /\ last.day = 2 => last.set = {1, 3}

\* C4: update(M, c, d) with c in bucket k returns a map in which c is in
\* exactly bucket max(0, min(k + adj, |keys(M)| - 1)), adj = +1 Easy, -1 Hard,
\* 0 Wrong; that bucket is never below 0 nor at or above |keys(M)|.
C4_UpdateClampedBucket ==
  UpdateReturned =>
    LET adj == CASE last.difficulty = "Easy" -> 1
                 [] last.difficulty = "Hard" -> -1
                 [] OTHER -> 0
        lo == IF PreBucket + adj <= PreSize - 1
              THEN PreBucket + adj ELSE PreSize - 1
        target == IF lo >= 0 THEN lo ELSE 0
    IN /\ BucketsHolding(RetView, last.card) = {target}
       /\ \A k \in BucketsHolding(RetView, last.card) : k >= 0 /\ k < PreSize

C4_Witness ==
  /\ UpdateReturned /\ last.difficulty = "Easy"
  /\ PreBucket + 1 > PreSize - 1
  /\ BucketsHolding(RetView, last.card) = {PreSize - 1}

\* C5 (as stated): update with Wrong causes no change of bucket, for every
\* valid bucket map with arbitrary gaps.
C5_WrongKeepsBucket ==
  (UpdateReturned /\ last.difficulty = "Wrong") =>
    BucketsHolding(RetView, last.card) = {PreBucket}

\* C5 (amended): update with Wrong leaves c in bucket k when
\* k <= |keys(M)| - 1 and otherwise puts it in bucket |keys(M)| - 1.
C5_WrongKeepsBucketBelowKeyCount ==
  (UpdateReturned /\ last.difficulty = "Wrong") =>
    BucketsHolding(RetView, last.card) =
      {IF PreBucket <= PreSize - 1 THEN PreBucket ELSE PreSize - 1}

C5_Witness ==
  /\ UpdateReturned /\ last.difficulty = "Wrong"
  /\ PreBucket = 1 /\ DOMAIN last.preView = {1, 2}
  /\ BucketsHolding(RetView, last.card) = {1}

\* C6 (as stated): if c is in bucket k and M has key k+1, Easy returns a map
\* with c in bucket k+1 and not in k; if c is in bucket k >= 1 and M has key
\* k-1, Hard returns a map with c in bucket k-1 and not in k.
C6_MovesToNeighbour ==
  UpdateReturned =>
    /\ (last.difficulty = "Easy" /\ PreBucket + 1 \in DOMAIN last.preView) =>
         BucketsHolding(RetView, last.card) = {PreBucket + 1}
    /\ (last.difficulty = "Hard" /\ PreBucket >= 1
          /\ PreBucket - 1 \in DOMAIN last.preView) =>
         BucketsHolding(RetView, last.card) = {PreBucket - 1}

\* C6 (amended): the same, provided the neighbouring bucket number is at
\* most |keys(M)| - 1.
C6_MovesToNeighbourBelowKeyCount ==
  UpdateReturned =>
    /\ (last.difficulty = "Easy" /\ PreBucket + 1 \in DOMAIN last.preView
          /\ PreBucket + 1 <= PreSize - 1) =>
         BucketsHolding(RetView, last.card) = {PreBucket + 1}
    /\ (last.difficulty = "Hard" /\ PreBucket >= 1
          /\ PreBucket - 1 \in DOMAIN last.preView
          /\ PreBucket - 1 <= PreSize - 1) =>
         BucketsHolding(RetView, last.card) = {PreBucket - 1}

C6_Witness ==
  /\ UpdateReturned /\ last.difficulty = "Easy"
  /\ PreBucket = 0 /\ 1 \in DOMAIN last.preView
  /\ BucketsHolding(RetView, last.card) = {1}

\* C7: update fails with "Card not found" iff c is in no bucket of M, for
\* every difficulty; when it fails it returns no map and leaves M unchanged.
C7_NotFoundIffAbsent ==
  last.op = "update" =>
    /\ last.threw <=> BucketsHolding(last.preView, last.card) = {}
    /\ last.threw =>
         /\ last.err = "Card not found"
         /\ last.map = <<>>
         /\ buckets = last.inMap
         /\ View(last.inMap, heap) = last.preView
    /\ ~last.threw => last.err = ""

C7_Witness ==
  /\ last.op = "update" /\ last.threw
  /\ DOMAIN last.preView # {}
  /\ \E k \in DOMAIN last.preView : last.preView[k] # {}

\* C8: practice(B, day) fails with an invalid-argument error and no partial
\* result iff day is negative; for day >= 0 it returns a set, empty when B is
\* empty or no scheduled bucket holds a card.
C8_PracticeFailsIffNegativeDay ==
  last.op = "practice" =>
    LET B == last.preArr IN
      /\ last.threw <=> last.day < 0
      /\ last.threw =>
           last.err = "Day number must be non-negative" /\ last.set = {}
      /\ (~last.threw /\
            \A j \in 1..Len(B) : last.day % j = 0 => B[j] = {}) =>
           last.set = {}

C8_Witness ==
  /\ last.op = "practice" /\ last.threw /\ last.day < 0
  /\ \E j \in 1..Len(last.preArr) : last.preArr[j] # {}

\* C9: toBucketSets(M) has length 0 iff M is empty, otherwise length
\* max(keys(M)) + 1; element i is the set stored at key i when key i is
\* present and the empty set when it is absent.
C9_ToBucketSetsDense ==
  last.op = "toBucketSets" =>
    LET M == last.preView
        A == ArrView(last.arr, heap)
    IN /\ Len(A) = 0 <=> DOMAIN M = {}
       /\ DOMAIN M # {} =>
            \E mx \in DOMAIN M :
              (\A k \in DOMAIN M : k <= mx) /\ Len(A) = mx + 1
       /\ \A i \in 0..(Len(A) - 1) :
            A[i + 1] = IF i \in DOMAIN M THEN M[i] ELSE {}

C9_Witness ==
  /\ last.op = "toBucketSets"
  /\ DOMAIN last.preView = {2}
  /\ last.preView[2] # {}
  /\ Len(last.arr) = 3

\* C10: getBucketRange(B) returns undefined iff every set of B is empty;
\* otherwise minBucket is the lowest and maxBucket the highest index whose
\* set is non-empty, so minBucket <= maxBucket and both hold non-empty sets.
C10_BucketRange ==
  last.op = "getBucketRange" =>
    LET B == last.preArr
        r == last.range
        nonEmpty == {i \in 0..(Len(B) - 1) : B[i + 1] # {}}
    IN /\ ~r.defined <=> nonEmpty = {}
       /\ r.defined =>
            /\ r.minBucket \in nonEmpty /\ r.maxBucket \in nonEmpty
            /\ \A i \in nonEmpty : r.minBucket <= i /\ i <= r.maxBucket
            /\ r.minBucket <= r.maxBucket

C10_Witness ==
  /\ last.op = "getBucketRange" /\ last.range.defined
  /\ Len(last.preArr) = 3 /\ last.preArr[2] = {}
  /\ last.range.minBucket = 0 /\ last.range.maxBucket = 2
\* the cards held by the buckets of view v
CardsIn(v) == UNION {v[k] : k \in DOMAIN v}

\* C12: starting from a map in which every card is in exactly one bucket,
\* after any sequence of successful update calls, each made on the map the
\* previous call returned, every card of the first map is in exactly one
\* bucket of the current map, no card was lost or added, no key was removed.
C12_UpdatesKeepOneBucketPerCard ==
  history.updates >= 1 =>
    LET v == View(buckets, heap) IN
      /\ \A c \in history.cards : Cardinality(BucketsHolding(v, c)) = 1
      /\ CardsIn(v) = history.cards
      /\ history.keys \subseteq DOMAIN v

C12_Witness ==
  /\ history.updates = 2 /\ last.op = "update" /\ ~last.threw
  /\ Cardinality(history.cards) >= 2
  /\ DOMAIN View(buckets, heap) # history.keys
  /\ \E c \in history.cards :
       BucketsHolding(View(buckets, heap), c) # BucketsHolding(last.preView, c)
====
